---- MODULE Spec2Model ----
(***************************************************************************)
(* Interrupt admission control of x86_64::instructions::interrupts.       *)
(*                                                                         *)
(* Every logical core has its own RFLAGS.IF bit, an interrupt shadow left *)
(* by `sti`, a halt state, and one pending line each for maskable         *)
(* interrupts and NMIs.  The code running on a core is a call stack of    *)
(* frames: a `without_interrupts` activation, an `enable_and_hlt`         *)
(* activation, an interrupt handler that returns with `iret`, or one of   *)
(* the two idle sequences of the documentation of `enable_and_hlt`.       *)
(***************************************************************************)
EXTENDS Integers, Sequences, FiniteSets

\* ---------------------------------------------------------------- bounds
MaxDepth == 2                \* nesting depth of without_interrupts calls
MaxDepthMP == 1              \* the same, per core, when both cores run
MaxVal == 2                  \* the closures return 1..MaxVal
MaxValMP == 1                \* the same, when both cores run

Cores == {"bsp", "ap"}       \* the logical cores of the machine
Values == 1..MaxVal
NoValue == 0                 \* `ret` before `let ret = f()` has run

VARIABLES
    INTERRUPT_FLAG,          \* INTERRUPT_FLAG[c]: RFLAGS.INTERRUPT_FLAG of core c
    shadow,      \* shadow[c]: the interrupt shadow of `sti` is active
    halted,      \* halted[c]: the core sleeps in `hlt`
    pending,     \* pending[c]: a maskable interrupt is raised, not delivered
    nmi,         \* nmi[c]: an NMI is raised, not delivered
    stack,       \* stack[c]: the activations of core c, innermost last
    rv,          \* rv[c]: what the call that has just returned gave back
    last,        \* last[c]: the last of enable() / disable() called on c
    todo,        \* todo[c]: a handler has left work for the thread of c
    nmiShadowed, \* the processor's sti shadow also holds back NMIs
    nmiFixup,    \* the NMI handler skips a `hlt` it interrupted after `sti`
    online,      \* the cores that execute code
    wired        \* the cores that interrupt sources are routed to

config == <<nmiShadowed, nmiFixup, online, wired>>
vars == <<INTERRUPT_FLAG, shadow, halted, pending, nmi, stack, rv, last, todo, config>>

\* ------------------------------------------------------------ activations
\* kind  : "wi" without_interrupts, "eh" enable_and_hlt, "irq"/"nmi" handler,
\*         "naive"/"safe" the idle sequences around hlt() / enable_and_hlt()
\* pc    : position inside the activation
\* entry : IF when the activation began (for a handler: the interrupted IF)
\* saved : without_interrupts' local saved_intpt_flag
\* f     : the value the closure returned, once it has
\* ret   : without_interrupts' local ret
\* dirty : "wi": the closure called raw enable/disable/enable_and_hlt;
\*         "eh": an NMI was delivered between sti and hlt
\* hit   : "eh": an interrupt was delivered to the core since the sti;
\*         "wi": a maskable interrupt was delivered between the read of the
\*         flag and the disable()
Frame(kind, pc, entry) ==
    [kind |-> kind, pc |-> pc, entry |-> entry, saved |-> FALSE,
     f |-> NoValue, ret |-> NoValue, dirty |-> FALSE, hit |-> FALSE]

Top(c) == stack[c][Len(stack[c])]
Pop(s) == SubSeq(s, 1, Len(s) - 1)
SetTop(s, fr) == [s EXCEPT ![Len(s)] = fr]
WiDepth(c) == Cardinality({i \in DOMAIN stack[c] : stack[c][i].kind = "wi"})
DepthBound == IF online = Cores THEN MaxDepthMP ELSE MaxDepth
ValueBound == IF online = Cores THEN MaxValMP ELSE MaxVal
InHandler(c) == stack[c] # <<>> /\ Top(c).kind \in {"irq", "nmi"}
InNmi(c) == \E i \in DOMAIN stack[c] : stack[c][i].kind = "nmi"

\* the thread of core c is executing caller code: top level, or a closure
InCaller(c) ==
    /\ c \in online
    /\ ~halted[c]
    /\ IF stack[c] = <<>> THEN TRUE ELSE Top(c).kind = "wi" /\ Top(c).pc = "work"

\* the closure toggled the flag itself: every enclosing section is affected
MarkDirty(s) ==
    [i \in DOMAIN s |-> IF s[i].kind = "wi" THEN [s[i] EXCEPT !.dirty = TRUE] ELSE s[i]]

Ret(op, b, v) == [op |-> op, b |-> b, v |-> v]
NoRet == Ret("none", FALSE, NoValue)
Unit(op) == Ret(op, FALSE, NoValue)

\* -------------------------------------------------------------- hardware
\* a read that answers from a copy kept by the previous query
ReadFlagCached(c) == rv[c].b

\* rflags::read().contains(RFlags::INTERRUPT_FLAG)
ReadFlag(c) == INTERRUPT_FLAG[c]

\* an instruction that flips IF instead of setting it
StiToggle(c) ==
    /\ INTERRUPT_FLAG' = [INTERRUPT_FLAG EXCEPT ![c] = ~INTERRUPT_FLAG[c]]
    /\ shadow' = [shadow EXCEPT ![c] = ~INTERRUPT_FLAG[c]]

\* a re-admission that takes effect at once, with no shadow
StiUnshadowed(c) ==
    /\ INTERRUPT_FLAG' = [INTERRUPT_FLAG EXCEPT ![c] = TRUE]
    /\ shadow' = [shadow EXCEPT ![c] = FALSE]

\* the re-admission is left out
StiNop(c) ==
    /\ INTERRUPT_FLAG' = INTERRUPT_FLAG
    /\ shadow' = [shadow EXCEPT ![c] = FALSE]

\* `sti`: sets IF; interrupts that were held back stay held back until the
\* instruction after it has executed
Sti(c) ==
    /\ INTERRUPT_FLAG' = [INTERRUPT_FLAG EXCEPT ![c] = TRUE]
    /\ shadow' = [shadow EXCEPT ![c] = ~INTERRUPT_FLAG[c]]

\* a flag shared by the whole machine: clearing it clears it everywhere
CliAll(c) ==
    /\ INTERRUPT_FLAG' = [d \in Cores |-> FALSE]
    /\ shadow' = [shadow EXCEPT ![c] = FALSE]

\* `cli`
Cli(c) ==
    /\ INTERRUPT_FLAG' = [INTERRUPT_FLAG EXCEPT ![c] = FALSE]
    /\ shadow' = [shadow EXCEPT ![c] = FALSE]

\* any other instruction of the thread ends a shadow and leaves IF alone
Plain(c) ==
    /\ INTERRUPT_FLAG' = INTERRUPT_FLAG
    /\ shadow' = [shadow EXCEPT ![c] = FALSE]

TypeOK ==
    /\ INTERRUPT_FLAG \in [Cores -> BOOLEAN]
    /\ shadow \in [Cores -> BOOLEAN]
    /\ halted \in [Cores -> BOOLEAN]
    /\ pending \in [Cores -> BOOLEAN]
    /\ nmi \in [Cores -> BOOLEAN]
    /\ last \in [Cores -> {"none", "enable", "disable"}]
    /\ todo \in [Cores -> BOOLEAN]
    /\ nmiShadowed \in BOOLEAN
    /\ nmiFixup \in BOOLEAN
    /\ online \subseteq Cores /\ wired \subseteq online
    /\ \A c \in Cores : Len(stack[c]) <= MaxDepth + 3
    /\ rv \in [Cores -> [op : {"none", "are_enabled", "enable", "disable", "panic",
                                "without_interrupts", "enable_and_hlt"},
                          b : BOOLEAN, v : {NoValue} \cup Values]]

Init ==
    /\ INTERRUPT_FLAG \in [Cores -> BOOLEAN]
    /\ shadow = [c \in Cores |-> FALSE]
    /\ halted = [c \in Cores |-> FALSE]
    /\ pending = [c \in Cores |-> FALSE]
    /\ nmi = [c \in Cores |-> FALSE]
    /\ stack = [c \in Cores |-> <<>>]
    /\ rv = [c \in Cores |-> NoRet]
    /\ last = [c \in Cores |-> "none"]
    /\ todo = [c \in Cores |-> FALSE]
    /\ nmiShadowed \in BOOLEAN
    /\ nmiFixup \in BOOLEAN
    /\ online = {"bsp"}
    /\ wired = {"bsp"}

\* ------------------------------------------------------------ operations
\* are_enabled() called from caller code
AreEnabled(c) ==
    /\ InCaller(c)
    /\ rv' = [rv EXCEPT ![c] = Ret("are_enabled", ReadFlag(c), NoValue)]
    /\ Plain(c)
    /\ UNCHANGED <<halted, pending, nmi, stack, last, todo, config>>

\* enable() called from caller code
Enable(c) ==
    /\ InCaller(c)
    /\ Sti(c)
    /\ stack' = [stack EXCEPT ![c] = MarkDirty(@)]
    /\ last' = [last EXCEPT ![c] = "enable"]
    /\ rv' = [rv EXCEPT ![c] = Unit("enable")]
    /\ UNCHANGED <<halted, pending, nmi, todo, config>>

\* disable() called from caller code
Disable(c) ==
    /\ InCaller(c)
    /\ Cli(c)
    /\ stack' = [stack EXCEPT ![c] = MarkDirty(@)]
    /\ last' = [last EXCEPT ![c] = "disable"]
    /\ rv' = [rv EXCEPT ![c] = Unit("disable")]
    /\ UNCHANGED <<halted, pending, nmi, todo, config>>

\* without_interrupts(f) is called: a new activation
CallWi(c) ==
    /\ InCaller(c)
    /\ WiDepth(c) < DepthBound
    /\ stack' = [stack EXCEPT ![c] = Append(@, Frame("wi", "read", INTERRUPT_FLAG[c]))]
    /\ rv' = [rv EXCEPT ![c] = NoRet]
    /\ Plain(c)
    /\ UNCHANGED <<halted, pending, nmi, last, todo, config>>

\* let saved_intpt_flag = are_enabled();
WiRead(c) ==
    /\ c \in online /\ ~halted[c]
    /\ stack[c] # <<>>
    /\ Top(c).kind = "wi" /\ Top(c).pc = "read"
    /\ stack' = [stack EXCEPT ![c] =
                    SetTop(@, [Top(c) EXCEPT !.saved = ReadFlag(c), !.pc = "test"])]
    /\ Plain(c)
    /\ UNCHANGED <<halted, pending, nmi, rv, last, todo, config>>

\* the section never disables
NeverDisable(fr) == FALSE

\* if saved_intpt_flag { disable(); }
NeedsDisable(fr) == fr.saved

WiDisable(c) ==
    /\ c \in online /\ ~halted[c]
    /\ stack[c] # <<>>
    /\ Top(c).kind = "wi" /\ Top(c).pc = "test"
    /\ IF NeedsDisable(Top(c))
          THEN Cli(c) /\ last' = [last EXCEPT ![c] = "disable"]
          ELSE Plain(c) /\ last' = last
    /\ stack' = [stack EXCEPT ![c] = SetTop(@, [Top(c) EXCEPT !.pc = "work"])]
    /\ UNCHANGED <<halted, pending, nmi, rv, todo, config>>

\* let ret = f();   the closure returns v
Bind(v) == v

WorkReturn(c, v) ==
    /\ InCaller(c)
    /\ stack[c] # <<>>
    /\ stack' = [stack EXCEPT ![c] =
                    SetTop(@, [Top(c) EXCEPT !.f = v, !.ret = Bind(v), !.pc = "restore"])]
    /\ rv' = [rv EXCEPT ![c] = NoRet]
    /\ Plain(c)
    /\ UNCHANGED <<halted, pending, nmi, last, todo, config>>

\* f() panics: the unwinding leaves without_interrupts at line 76; nothing
\* after the call runs, and no destructor restores the flag
WorkPanic(c) ==
    /\ InCaller(c)
    /\ stack[c] # <<>>
    /\ stack' = [stack EXCEPT ![c] = Pop(@)]
    /\ rv' = [rv EXCEPT ![c] = Unit("panic")]
    /\ Plain(c)
    /\ UNCHANGED <<halted, pending, nmi, last, todo, config>>

\* the section re-enables on every exit, whatever it saved
AlwaysEnable(fr) == TRUE

\* the test of the saved flag is inverted
InvertedEnable(fr) == ~fr.saved

\* if saved_intpt_flag { enable(); }
NeedsEnable(fr) == fr.saved

WiEnable(c) ==
    /\ c \in online /\ ~halted[c]
    /\ stack[c] # <<>>
    /\ Top(c).kind = "wi" /\ Top(c).pc = "restore"
    /\ IF NeedsEnable(Top(c))
          THEN Sti(c) /\ last' = [last EXCEPT ![c] = "enable"]
          ELSE Plain(c) /\ last' = last
    /\ stack' = [stack EXCEPT ![c] = SetTop(@, [Top(c) EXCEPT !.pc = "ret"])]
    /\ UNCHANGED <<halted, pending, nmi, rv, todo, config>>

\* the section gives back a default instead of the closure's result
ReturnedDefault(fr) == NoValue

\* ret   (the value without_interrupts gives back)
Returned(fr) == fr.ret

WiReturn(c) ==
    /\ c \in online /\ ~halted[c]
    /\ stack[c] # <<>>
    /\ Top(c).kind = "wi" /\ Top(c).pc = "ret"
    /\ rv' = [rv EXCEPT ![c] = Ret("without_interrupts", FALSE, Returned(Top(c)))]
    /\ stack' = [stack EXCEPT ![c] = Pop(@)]
    /\ Plain(c)
    /\ UNCHANGED <<halted, pending, nmi, last, todo, config>>

\* enable_and_hlt(): the `sti` of "sti; hlt"
EhSti(c) ==
    /\ InCaller(c)
    /\ Sti(c)
    /\ stack' = [stack EXCEPT ![c] =
                    Append(MarkDirty(@), Frame("eh", "hlt", INTERRUPT_FLAG[c]))]
    /\ last' = [last EXCEPT ![c] = "none"]
    /\ rv' = [rv EXCEPT ![c] = NoRet]
    /\ UNCHANGED <<halted, pending, nmi, todo, config>>

\* a halt that does not stop the core
HltNop(c) == halted' = halted

\* `hlt`: the core stops executing until an interrupt is delivered to it
Hlt(c) == halted' = [halted EXCEPT ![c] = TRUE]

\* enable_and_hlt(): the `hlt` of "sti; hlt"
EhHlt(c) ==
    /\ c \in online /\ ~halted[c]
    /\ stack[c] # <<>>
    /\ Top(c).kind = "eh" /\ Top(c).pc = "hlt"
    /\ Hlt(c)
    /\ stack' = [stack EXCEPT ![c] = SetTop(@, [Top(c) EXCEPT !.pc = "ret"])]
    /\ Plain(c)
    /\ UNCHANGED <<pending, nmi, rv, last, todo, config>>

\* enable_and_hlt() returns once the core runs again
EhReturn(c) ==
    /\ c \in online /\ ~halted[c]
    /\ stack[c] # <<>>
    /\ Top(c).kind = "eh" /\ Top(c).pc = "ret"
    /\ stack' = [stack EXCEPT ![c] = Pop(@)]
    /\ rv' = [rv EXCEPT ![c] = Unit("enable_and_hlt")]
    /\ Plain(c)
    /\ UNCHANGED <<halted, pending, nmi, last, todo, config>>

\* ------------------------------------------------------------ interrupts
\* a device raises a maskable interrupt for core c
RaiseIrq(c) ==
    /\ c \in wired
    /\ ~pending[c]
    /\ pending' = [pending EXCEPT ![c] = TRUE]
    /\ UNCHANGED <<INTERRUPT_FLAG, shadow, halted, nmi, stack, rv, last, todo, config>>

\* an NMI is raised for core c
RaiseNmi(c) ==
    /\ c \in wired
    /\ ~nmi[c]
    /\ nmi' = [nmi EXCEPT ![c] = TRUE]
    /\ UNCHANGED <<INTERRUPT_FLAG, shadow, halted, pending, stack, rv, last, todo, config>>

\* the core admits a maskable interrupt at this instruction boundary
Admits(c) == INTERRUPT_FLAG[c] /\ ~shadow[c]

\* the interrupted activation, seen from the delivery of an interrupt
Interrupted(s, isNmi) ==
    IF s # <<>> /\ s[Len(s)].kind = "eh"
        THEN SetTop(s, [s[Len(s)] EXCEPT
                            !.hit = TRUE,
                            !.dirty = @ \/ (isNmi /\ s[Len(s)].pc = "hlt")])
    ELSE IF s # <<>> /\ s[Len(s)].kind = "wi" /\ s[Len(s)].pc = "test" /\ ~isNmi
        THEN SetTop(s, [s[Len(s)] EXCEPT !.hit = TRUE])
        ELSE s

\* delivery of a maskable interrupt: wakes a halted core, enters the handler
\* through an interrupt gate (IF is saved in the stack frame and cleared)
DeliverIrq(c) ==
    /\ pending[c]
    /\ Admits(c)
    /\ pending' = [pending EXCEPT ![c] = FALSE]
    /\ halted' = [halted EXCEPT ![c] = FALSE]
    /\ stack' = [stack EXCEPT ![c] =
                    Append(Interrupted(@, FALSE), Frame("irq", "handler", INTERRUPT_FLAG[c]))]
    /\ INTERRUPT_FLAG' = [INTERRUPT_FLAG EXCEPT ![c] = FALSE]
    /\ UNCHANGED <<shadow, nmi, rv, last, todo, config>>

\* no processor holds an NMI back in the sti shadow
NmiIgnoresShadow(c) == ~InNmi(c)

\* an NMI ignores IF; whether the sti shadow holds it back depends on the
\* processor; NMIs stay blocked until the NMI handler's iret
NmiAdmits(c) == (~shadow[c] \/ ~nmiShadowed) /\ ~InNmi(c)

DeliverNmi(c) ==
    /\ nmi[c]
    /\ NmiAdmits(c)
    /\ nmi' = [nmi EXCEPT ![c] = FALSE]
    /\ halted' = [halted EXCEPT ![c] = FALSE]
    /\ stack' = [stack EXCEPT ![c] =
                    Append(Interrupted(@, TRUE),
                           Frame("nmi", "handler", INTERRUPT_FLAG[c]))]
    /\ INTERRUPT_FLAG' = [INTERRUPT_FLAG EXCEPT ![c] = FALSE]
    /\ shadow' = [shadow EXCEPT ![c] = FALSE]
    /\ UNCHANGED <<pending, rv, last, todo, config>>

\* a handler that always returns to the interrupted instruction
ResumeSame(s, h) == s

\* the NMI handler's workaround: if the NMI hit between sti and hlt, the
\* saved instruction pointer is moved past the hlt
Resume(s, h) ==
    IF /\ h.kind = "nmi" /\ nmiFixup
       /\ s # <<>> /\ s[Len(s)].kind = "eh" /\ s[Len(s)].pc = "hlt"
        THEN SetTop(s, [s[Len(s)] EXCEPT !.pc = "ret"])
        ELSE s

\* the handler of a maskable interrupt leaves work for the thread
Produces(h) == h.kind = "irq"

\* the handler returns: iret restores the interrupted RFLAGS
Iret(c) ==
    /\ InHandler(c)
    /\ INTERRUPT_FLAG' = [INTERRUPT_FLAG EXCEPT ![c] = Top(c).entry]
    /\ stack' = [stack EXCEPT ![c] = Resume(Pop(@), Top(c))]
    /\ todo' = [todo EXCEPT ![c] = @ \/ Produces(Top(c))]
    /\ UNCHANGED <<shadow, halted, pending, nmi, rv, last, config>>

\* ------------------------------------------------------------- idle loop
\* nothing_to_do()
NothingToDo(c) == ~todo[c]

\* the thread of core c is at position pc of an idle sequence
Idling(c, kind, pc) ==
    /\ c \in online /\ ~halted[c]
    /\ stack[c] # <<>>
    /\ Top(c).kind = kind /\ Top(c).pc = pc

\* the idle loop takes the work the handlers left
DoWork(c) ==
    /\ InCaller(c)
    /\ stack[c] = <<>>
    /\ todo[c]
    /\ todo' = [todo EXCEPT ![c] = FALSE]
    /\ rv' = [rv EXCEPT ![c] = NoRet]
    /\ Plain(c)
    /\ UNCHANGED <<halted, pending, nmi, stack, last, config>>

\* the idle loop of a core that waits for its interrupts begins
\*     if nothing_to_do() { hlt(); }
CallNaive(c) ==
    /\ InCaller(c)
    /\ stack[c] = <<>>
    /\ c \in wired
    /\ stack' = [stack EXCEPT ![c] = <<Frame("naive", "check", INTERRUPT_FLAG[c])>>]
    /\ rv' = [rv EXCEPT ![c] = NoRet]
    /\ Plain(c)
    /\ UNCHANGED <<halted, pending, nmi, last, todo, config>>

\* if nothing_to_do() {
NaiveCheck(c) ==
    /\ Idling(c, "naive", "check")
    /\ stack' = [stack EXCEPT ![c] =
                    IF NothingToDo(c) THEN SetTop(@, [Top(c) EXCEPT !.pc = "hlt"])
                                      ELSE Pop(@)]
    /\ Plain(c)
    /\ UNCHANGED <<halted, pending, nmi, rv, last, todo, config>>

\* hlt();
NaiveHlt(c) ==
    /\ Idling(c, "naive", "hlt")
    /\ Hlt(c)
    /\ stack' = [stack EXCEPT ![c] = SetTop(@, [Top(c) EXCEPT !.pc = "ret"])]
    /\ Plain(c)
    /\ UNCHANGED <<pending, nmi, rv, last, todo, config>>

\* }   the core runs again
NaiveReturn(c) ==
    /\ Idling(c, "naive", "ret")
    /\ stack' = [stack EXCEPT ![c] = Pop(@)]
    /\ Plain(c)
    /\ UNCHANGED <<halted, pending, nmi, rv, last, todo, config>>

\* the idle loop of a core that waits for its interrupts begins
\*     disable(); if nothing_to_do() { enable_and_hlt(); }
CallSafe(c) ==
    /\ InCaller(c)
    /\ stack[c] = <<>>
    /\ c \in wired
    /\ stack' = [stack EXCEPT ![c] = <<Frame("safe", "disable", INTERRUPT_FLAG[c])>>]
    /\ rv' = [rv EXCEPT ![c] = NoRet]
    /\ Plain(c)
    /\ UNCHANGED <<halted, pending, nmi, last, todo, config>>

\* disable();
SafeDisable(c) ==
    /\ Idling(c, "safe", "disable")
    /\ Cli(c)
    /\ stack' = [stack EXCEPT ![c] = SetTop(@, [Top(c) EXCEPT !.pc = "check"])]
    /\ last' = [last EXCEPT ![c] = "disable"]
    /\ UNCHANGED <<halted, pending, nmi, rv, todo, config>>

\* if nothing_to_do() {
SafeCheck(c) ==
    /\ Idling(c, "safe", "check")
    /\ stack' = [stack EXCEPT ![c] =
                    IF NothingToDo(c) THEN SetTop(@, [Top(c) EXCEPT !.pc = "hlt"])
                                      ELSE Pop(@)]
    /\ Plain(c)
    /\ UNCHANGED <<halted, pending, nmi, rv, last, todo, config>>

\* enable_and_hlt();   the `sti` of its "sti; hlt"
SafeEnableAndHlt(c) ==
    /\ Idling(c, "safe", "hlt")
    /\ Sti(c)
    /\ stack' = [stack EXCEPT ![c] =
                    Append(SetTop(@, [Top(c) EXCEPT !.pc = "ret"]),
                           Frame("eh", "hlt", INTERRUPT_FLAG[c]))]
    /\ last' = [last EXCEPT ![c] = "none"]
    /\ rv' = [rv EXCEPT ![c] = NoRet]
    /\ UNCHANGED <<halted, pending, nmi, todo, config>>

\* }   enable_and_hlt has returned
SafeReturn(c) ==
    /\ Idling(c, "safe", "ret")
    /\ stack' = [stack EXCEPT ![c] = Pop(@)]
    /\ Plain(c)
    /\ UNCHANGED <<halted, pending, nmi, rv, last, todo, config>>

Next ==
    \E c \in Cores :
        \/ AreEnabled(c)
        \/ Enable(c)
        \/ Disable(c)
        \/ CallWi(c)
        \/ WiRead(c)
        \/ WiDisable(c)
        \/ \E v \in 1..ValueBound : WorkReturn(c, v)
        \/ WorkPanic(c)
        \/ WiEnable(c)
        \/ WiReturn(c)
        \/ EhSti(c)
        \/ EhHlt(c)
        \/ EhReturn(c)
        \/ RaiseIrq(c)
        \/ RaiseNmi(c)
        \/ DeliverIrq(c)
        \/ DeliverNmi(c)
        \/ Iret(c)
        \/ DoWork(c)
        \/ CallNaive(c)
        \/ NaiveCheck(c)
        \/ NaiveHlt(c)
        \/ NaiveReturn(c)
        \/ CallSafe(c)
        \/ SafeDisable(c)
        \/ SafeCheck(c)
        \/ SafeEnableAndHlt(c)
        \/ SafeReturn(c)

Spec == Init /\ [][Next]_vars

\* a machine whose second core runs too; interrupts stay routed to the
\* bsp, its sti shadow does not hold NMIs back, and its NMI handler has no
\* workaround
InitMP ==
    /\ INTERRUPT_FLAG \in [Cores -> BOOLEAN]
    /\ shadow = [c \in Cores |-> FALSE]
    /\ halted = [c \in Cores |-> FALSE]
    /\ pending = [c \in Cores |-> FALSE]
    /\ nmi = [c \in Cores |-> FALSE]
    /\ stack = [c \in Cores |-> <<>>]
    /\ rv = [c \in Cores |-> NoRet]
    /\ last = [c \in Cores |-> "none"]
    /\ todo = [c \in Cores |-> FALSE]
    /\ nmiShadowed = FALSE
    /\ nmiFixup = FALSE
    /\ online = Cores
    /\ wired = {"bsp"}

SpecMP == InitMP /\ [][Next]_vars

\* The hardware delivers an interrupt it admits.  Interrupts do not arrive
\* so densely that code never runs: the NMI handler, which nothing
\* preempts, executes its iret; the handler of a maskable interrupt, which
\* gets the core again and again, executes its iret; and a core that is
\* out of its handlers again and again executes the return of
\* enable_and_hlt.
Fairness ==
    \A c \in Cores :
        /\ WF_vars(DeliverIrq(c))
        /\ WF_vars(DeliverNmi(c))
        /\ WF_vars(Iret(c) /\ Top(c).kind = "nmi")
        /\ SF_vars(Iret(c) /\ Top(c).kind = "irq")
        /\ SF_vars(EhReturn(c))

SpecLive == Init /\ [][Next]_vars /\ Fairness

\* ================================================================ claims
\* steps of the thread of core c, told by what they do to its stack
TopIs(c, kind, pc) ==
    IF stack[c] = <<>> THEN FALSE ELSE Top(c).kind = kind /\ Top(c).pc = pc
Popped(c) == stack[c] # <<>> /\ stack'[c] = Pop(stack[c])
WiReturns(c) == TopIs(c, "wi", "ret") /\ Popped(c)
WiUnwinds(c) == TopIs(c, "wi", "work") /\ Popped(c)
WiFrames(c) == {i \in DOMAIN stack[c] : stack[c][i].kind = "wi"}
\* a section whose closure has not toggled the flag itself
Clean(fr) == fr.kind = "wi" /\ ~fr.dirty

\* ---------------------------------------------------------------- C1
C1_ReadsLastCall ==
    \A c \in Cores :
        rv[c].op = "are_enabled" =>
            /\ last[c] = "enable" => rv[c].b
            /\ last[c] = "disable" => ~rv[c].b

C1_Idempotent ==
    \A c \in Cores :
        /\ Enable(c) /\ INTERRUPT_FLAG[c] => INTERRUPT_FLAG'[c]
        /\ Disable(c) /\ ~INTERRUPT_FLAG[c] => ~INTERRUPT_FLAG'[c]

\* C1: after any sequence of enable() and disable() calls on a core,
\* are_enabled() returns TRUE if the last call was enable() and FALSE if it
\* was disable(); enable() on a set bit and disable() on a clear bit leave
\* the bit as it was.
C1_LastToggleDecides == []C1_ReadsLastCall /\ [][C1_Idempotent]_vars

\* at top level, are_enabled() has answered FALSE after a disable()
C1_Witness ==
    /\ rv["bsp"].op = "are_enabled" /\ last["bsp"] = "disable" /\ ~rv["bsp"].b
    /\ stack["bsp"] = <<>>

\* ---------------------------------------------------------------- C2
C2_ClearDuringWork ==
    \A c \in Cores : \A i \in WiFrames(c) :
        (Clean(stack[c][i]) /\ stack[c][i].entry /\ stack[c][i].pc = "work") =>
            /\ ~INTERRUPT_FLAG[c]
            /\ \A j \in DOMAIN stack[c] : j > i => stack[c][j].kind # "irq"

C2_SetAfterReturn ==
    \A c \in Cores :
        (WiReturns(c) /\ Clean(Top(c)) /\ Top(c).entry) => INTERRUPT_FLAG'[c]

\* C2: a without_interrupts section entered with the bit set, whose closure
\* does not toggle the flag itself, has the bit clear at every point of the
\* closure's execution (no maskable interrupt is delivered inside it), and
\* the bit is set again when without_interrupts returns.
C2_SuppressedThenRestored == []C2_ClearDuringWork /\ [][C2_SetAfterReturn]_vars

\* an NMI handler runs on top of a closure of a section entered with the
\* bit set, while a maskable interrupt is pending and stays undelivered
C2_Witness ==
    /\ Len(stack["bsp"]) = 2
    /\ Clean(stack["bsp"][1]) /\ stack["bsp"][1].entry /\ stack["bsp"][1].pc = "work"
    /\ stack["bsp"][2].kind = "nmi"
    /\ pending["bsp"]

\* ---------------------------------------------------------------- C3
C3_StaysClear ==
    \A c \in Cores : \A i \in WiFrames(c) :
        (Clean(stack[c][i]) /\ ~stack[c][i].entry) =>
            /\ ~INTERRUPT_FLAG[c]
            /\ stack[c][i].pc = "test" => ~NeedsDisable(stack[c][i])
            /\ stack[c][i].pc = "restore" => ~NeedsEnable(stack[c][i])

C3_NoToggle ==
    \A c \in Cores :
        /\ (WiReturns(c) /\ Clean(Top(c)) /\ ~Top(c).entry) => ~INTERRUPT_FLAG'[c]
        /\ (WiDisable(c) \/ WiEnable(c)) /\ Clean(Top(c)) /\ ~Top(c).entry
              => last'[c] = last[c] /\ INTERRUPT_FLAG' = INTERRUPT_FLAG

\* C3: a without_interrupts section entered with the bit clear, whose
\* closure does not toggle the flag itself, is a pass-through: it executes
\* neither disable() nor enable(), and the bit is clear before, throughout
\* and after the call.
C3_PassThrough == []C3_StaysClear /\ [][C3_NoToggle]_vars

\* such a section has run its closure and stands before its return
C3_Witness ==
    /\ TopIs("bsp", "wi", "ret")
    /\ Clean(Top("bsp")) /\ ~Top("bsp").entry
    /\ Len(stack["bsp"]) = 1

\* ---------------------------------------------------------------- C4
Outermost(c) == stack[c][1]
Nested(c) ==
    /\ stack[c] # <<>>
    /\ Clean(Outermost(c)) /\ Outermost(c).entry

C4_ClearUntilOuterExit ==
    \A c \in Cores :
        (Nested(c) /\ Outermost(c).pc \in {"work", "restore"}) => ~INTERRUPT_FLAG[c]

C4_InnerExitKeepsClear ==
    \A c \in Cores :
        /\ (Nested(c) /\ Len(stack[c]) > 1 /\ (WiReturns(c) \/ WiUnwinds(c)))
              => ~INTERRUPT_FLAG'[c]
        /\ (Nested(c) /\ Len(stack[c]) = 1 /\ WiReturns(c)) => INTERRUPT_FLAG'[c]

\* C4: with without_interrupts calls nested to any depth, begun with the
\* bit set and with no raw enable/disable inside, the bit is clear from the
\* outermost call's disable() to its restoring step, no inner call
\* re-admits interrupts when it exits, and the outermost return leaves the
\* bit set.
C4_NestingKeepsSuppression ==
    []C4_ClearUntilOuterExit /\ [][C4_InnerExitKeepsClear]_vars

\* the innermost of MaxDepth nested sections stands before its return
C4_Witness ==
    /\ WiDepth("bsp") = MaxDepth /\ MaxDepth > 1
    /\ Nested("bsp")
    /\ TopIs("bsp", "wi", "ret")

\* ---------------------------------------------------------------- C5
EhFrames(c) == {i \in DOMAIN stack[c] : stack[c][i].kind = "eh"}
\* a maskable interrupt was delivered on top of activation i
IrqAbove(c, i) == \E j \in DOMAIN stack[c] : j > i /\ stack[c][j].kind = "irq"
\* enable_and_hlt called with the bit clear, as the idle pattern calls it
FromDisabled(fr) == fr.kind = "eh" /\ ~fr.entry

\* a core halted by enable_and_hlt admits the maskable interrupt that is
\* pending for it
C5_HaltedAdmits ==
    \A c \in Cores : (halted[c] /\ TopIs(c, "eh", "ret") /\ pending[c]) => Admits(c)

\* C5 as claimed: enable_and_hlt called with interrupts disabled never has
\* a maskable interrupt delivered between its sti and its hlt, and a halted
\* core admits a pending maskable interrupt.
C5_NoLostWakeup ==
    /\ C5_HaltedAdmits
    /\ \A c \in Cores : \A i \in EhFrames(c) :
           (FromDisabled(stack[c][i]) /\ stack[c][i].pc = "hlt") => ~IrqAbove(c, i)

\* C5 as amended: the same, provided no NMI was delivered between the sti
\* and the hlt (an NMI that the shadow does not hold back ends the shadow
\* when its handler returns, and a maskable interrupt can then be
\* delivered before the hlt).
C5_NoLostWakeupWithoutNmi ==
    /\ C5_HaltedAdmits
    /\ \A c \in Cores : \A i \in EhFrames(c) :
           (FromDisabled(stack[c][i]) /\ ~stack[c][i].dirty /\ stack[c][i].pc = "hlt")
               => ~IrqAbove(c, i)

\* an interrupt raised after the sti was delivered once the core had halted:
\* its handler runs on top of the woken enable_and_hlt
C5_Witness ==
    /\ Len(stack["bsp"]) = 2
    /\ FromDisabled(stack["bsp"][1]) /\ ~stack["bsp"][1].dirty
    /\ stack["bsp"][1].pc = "ret"
    /\ stack["bsp"][2].kind = "irq"

\* ---------------------------------------------------------------- C6
\* C6: without_interrupts leaves the flag as it found it on every exit of
\* a section whose closure did not toggle it, when the closure returns and
\* when its failure propagates out of without_interrupts.
C6_RestoresOnEveryExit ==
    [][\A c \in Cores :
          ((WiReturns(c) \/ WiUnwinds(c)) /\ Clean(Top(c)))
              => INTERRUPT_FLAG'[c] = Top(c).entry]_vars

\* ---------------------------------------------------------------- C7
\* C7: without_interrupts returns exactly the value its closure returned.
C7_ReturnsClosureResult ==
    [][\A c \in Cores :
          WiReturns(c) =>
              /\ Top(c).f \in Values
              /\ rv'[c] = Ret("without_interrupts", FALSE, Top(c).f)]_vars

\* a section entered with the bit set has returned the closure's MaxVal
C7_Witness ==
    /\ rv["bsp"] = Ret("without_interrupts", FALSE, MaxVal)
    /\ INTERRUPT_FLAG["bsp"] /\ last["bsp"] = "enable"

\* ---------------------------------------------------------------- C8
\* C8: are_enabled() returns the value the admission bit has at the call,
\* both when the caller's code calls it and when without_interrupts does,
\* and leaves the bit of every core as it is.
C8_ReadsLiveFlag ==
    [][\A c \in Cores :
          /\ AreEnabled(c) =>
                /\ rv'[c] = Ret("are_enabled", INTERRUPT_FLAG[c], NoValue)
                /\ INTERRUPT_FLAG' = INTERRUPT_FLAG
                /\ stack' = stack /\ last' = last /\ halted' = halted
          /\ WiRead(c) =>
                /\ stack'[c][Len(stack'[c])].saved = INTERRUPT_FLAG[c]
                /\ INTERRUPT_FLAG' = INTERRUPT_FLAG]_vars

\* inside a closure of a section that saved FALSE, after the closure called
\* enable(), are_enabled() has answered TRUE
C8_Witness ==
    /\ rv["bsp"].op = "are_enabled" /\ rv["bsp"].b
    /\ TopIs("bsp", "wi", "work") /\ ~Top("bsp").saved

\* ---------------------------------------------------------------- C9
C9_WakesOnlyByInterrupt ==
    \A c \in Cores :
        (halted[c] /\ ~halted'[c]) =>
            \/ pending[c] /\ ~pending'[c]
            \/ nmi[c] /\ ~nmi'[c]

C9_ReturnsOnlyAfterInterrupt ==
    \A c \in Cores : (TopIs(c, "eh", "ret") /\ ~halted[c]) => Top(c).hit

C9_EventuallyReturns ==
    \A c \in Cores :
        (halted[c] /\ TopIs(c, "eh", "ret") /\ (pending[c] \/ nmi[c]))
            ~> (rv[c].op = "enable_and_hlt")

\* C9: enable_and_hlt blocks the core until an interrupt, maskable or not,
\* is delivered: a halted core for which an interrupt is raised wakes and
\* the call returns; the core leaves the halt only by the delivery of an
\* interrupt, and the call does not return before one was delivered.
C9_BlocksUntilInterrupt ==
    /\ C9_EventuallyReturns
    /\ [][C9_WakesOnlyByInterrupt]_vars
    /\ []C9_ReturnsOnlyAfterInterrupt

\* the core sleeps in enable_and_hlt and no interrupt is raised for it
C9_Witness ==
    /\ halted["bsp"] /\ ~pending["bsp"] /\ ~nmi["bsp"]
    /\ TopIs("bsp", "eh", "ret") /\ ~Top("bsp").hit

\* --------------------------------------------------------------- C10
\* everything that belongs to core c
Local(c) ==
    <<INTERRUPT_FLAG[c], shadow[c], halted[c], pending[c], nmi[c], stack[c], rv[c], last[c],
      todo[c]>>

\* C10: the admission bit is core-local: a step of core c, whichever of
\* enable, disable, without_interrupts and enable_and_hlt it belongs to,
\* changes no other core's bit.  (That two cores run the closures of their
\* own sections at once is the reachable state C10_Witness.)
C10_CoreLocal ==
    [][\A c \in Cores : Local(c)' # Local(c) =>
          \A d \in Cores \ {c} : INTERRUPT_FLAG'[d] = INTERRUPT_FLAG[d]]_vars

\* both cores execute the closure of a section of their own, each entered
\* with the bit set and each with its own bit clear
C10_Witness ==
    \A c \in Cores :
        /\ TopIs(c, "wi", "work")
        /\ Clean(Top(c)) /\ Top(c).entry
        /\ ~INTERRUPT_FLAG[c]

\* --------------------------------------------------------------- C11
\* after a raw enable() in the closure nothing clears the bit again: it is
\* set for the rest of the closure and, if the section saved FALSE, at its
\* restoring step and at its return
C11_MisuseStands ==
    \A c \in Cores :
        (stack[c] # <<>> /\ Top(c).kind = "wi" /\ Top(c).dirty /\ last[c] = "enable"
            /\ Top(c).pc \in {"work", "restore", "ret"}) => INTERRUPT_FLAG[c]

\* the restoring step looks at the saved flag alone, and the return at nothing
C11_RestoreBySavedFlag ==
    \A c \in Cores :
        /\ WiEnable(c) => INTERRUPT_FLAG'[c] = (Top(c).saved \/ INTERRUPT_FLAG[c])
        /\ WiReturns(c) => INTERRUPT_FLAG'[c] = INTERRUPT_FLAG[c]

\* C11: when the closure calls the raw enable() or disable() itself, the
\* guarantees of without_interrupts are gone and nothing detects or
\* corrects it: after a raw enable() the bit stays set for the rest of the
\* closure and, in a section entered with the bit clear, after the return;
\* the restoring step sets the bit if the flag saved at entry was set and
\* otherwise leaves the bit as the closure left it.
C11_MisuseUncorrected == []C11_MisuseStands /\ [][C11_RestoreBySavedFlag]_vars

\* a section entered with the bit clear, whose closure called enable(),
\* stands before its return with the bit set
C11_Witness ==
    /\ TopIs("bsp", "wi", "ret")
    /\ ~Top("bsp").entry /\ ~Top("bsp").saved /\ Top("bsp").dirty
    /\ INTERRUPT_FLAG["bsp"]

\* a maskable interrupt is handled inside the closure of a section that
\* was entered with the bit set and disabled it
C11_AdmittedDuringWork ==
    /\ Len(stack["bsp"]) = 2
    /\ stack["bsp"][1].kind = "wi" /\ stack["bsp"][1].pc = "work"
    /\ stack["bsp"][1].entry /\ stack["bsp"][1].saved
    /\ stack["bsp"][2].kind = "irq"

\* --------------------------------------------------------------- C12
\* the activation below the handler that is on top of the stack of core c
Below(c) == stack[c][Len(stack[c]) - 1]
AboveHlt(c, kind) ==
    /\ Len(stack[c]) >= 2
    /\ Top(c).kind = kind
    /\ Below(c).kind = "eh" /\ Below(c).pc = "hlt"

\* an NMI gets between the sti and the hlt of a call made with the bit
\* clear only where the shadow does not hold NMIs back
C12_NmiInsideOnlyUnshadowed ==
    \A c \in Cores : \A i \in EhFrames(c) :
        (FromDisabled(stack[c][i]) /\ stack[c][i].dirty) => ~nmiShadowed

\* a handler without the workaround returns to the hlt, and the hlt then
\* stops the core
C12_ReturnsToHltAndSleeps ==
    \A c \in Cores :
        /\ (Iret(c) /\ AboveHlt(c, "nmi") /\ ~nmiFixup) =>
                (stack'[c] = Pop(stack[c]) /\ ~halted'[c])
        /\ (TopIs(c, "eh", "hlt") /\ Len(stack'[c]) = Len(stack[c])
                /\ stack'[c] # stack[c]) => halted'[c]

\* C12: where the sti shadow does not hold NMIs back, an NMI can be
\* delivered between the sti and the hlt of enable_and_hlt (and only there,
\* when the call was made with the bit clear); an NMI handler that returns
\* to the interrupted instruction returns to the hlt, which then puts the
\* core to sleep although an interrupt has just occurred.
C12_NmiBetweenStiAndHlt ==
    []C12_NmiInsideOnlyUnshadowed /\ [][C12_ReturnsToHltAndSleeps]_vars

\* the core sleeps in an enable_and_hlt called with the bit clear, after an
\* NMI was delivered between its sti and its hlt
C12_Witness ==
    /\ ~nmiShadowed /\ ~nmiFixup
    /\ halted["bsp"]
    /\ TopIs("bsp", "eh", "ret")
    /\ FromDisabled(Top("bsp")) /\ Top("bsp").dirty

\* --------------------------------------------------------------- C13
\* an NMI was delivered between the sti and the hlt of a call of core c
\* that has not returned yet
NmiInside(c) == \E i \in EhFrames(c) : stack[c][i].dirty

C13_NeverHaltedAfterNmi ==
    \A c \in Cores : (nmiFixup /\ NmiInside(c)) => ~halted[c]

C13_ReturnsWithoutSleeping ==
    \A c \in Cores : (nmiFixup /\ NmiInside(c)) ~> (rv[c].op = "enable_and_hlt")

\* C13: with an NMI handler that moves the saved instruction pointer past
\* the hlt when the NMI interrupted enable_and_hlt between its sti and its
\* hlt, the hlt is skipped: from the delivery of such an NMI on the core is
\* never halted inside that call, and the call returns.
C13_FixupSkipsHlt == []C13_NeverHaltedAfterNmi /\ C13_ReturnsWithoutSleeping

\* the handler with the workaround has returned past the hlt of a call made
\* with the bit clear: the call is about to return and the core runs
C13_Witness ==
    /\ nmiFixup
    /\ TopIs("bsp", "eh", "ret")
    /\ FromDisabled(Top("bsp")) /\ Top("bsp").dirty
    /\ ~halted["bsp"]

\* --------------------------------------------------------------- C14
\* core c runs the idle sequence `kind`
Runs(c, kind) == stack[c] # <<>> /\ stack[c][1].kind = kind
\* the core sleeps although a handler has left work for its thread
LostWakeup(c) == halted[c] /\ todo[c]

C15_SavedFlagAccurate ==
    \A c \in Cores : \A i \in WiFrames(c) :
        (Clean(stack[c][i]) /\ stack[c][i].pc # "read") =>
            /\ stack[c][i].saved = stack[c][i].entry
            /\ (stack[c][i].pc = "test" /\ i = Len(stack[c])) =>
                    stack[c][i].saved = INTERRUPT_FLAG[c]

\* a section interrupted between its read and its disable() has the bit
\* clear throughout its closure
C15_InterruptedStaysClear ==
    \A c \in Cores : \A i \in WiFrames(c) :
        (Clean(stack[c][i]) /\ stack[c][i].hit /\ stack[c][i].pc = "work") =>
            /\ ~INTERRUPT_FLAG[c]
            /\ ~IrqAbove(c, i)

\* and the bit set when it returns
C15_InterruptedRestores ==
    \A c \in Cores :
        (WiReturns(c) /\ Clean(Top(c)) /\ Top(c).hit) => INTERRUPT_FLAG'[c]

\* C15: a maskable interrupt delivered between the are_enabled() read and
\* the disable() of without_interrupts, whose handler returns with the
\* interrupted flag restored, leaves the saved flag accurate: the section
\* still has the bit clear throughout its closure and set after its return.
C15_SavedFlagSurvivesInterrupt ==
    /\ []C15_SavedFlagAccurate
    /\ []C15_InterruptedStaysClear
    /\ [][C15_InterruptedRestores]_vars

\* the closure of a section runs with the bit clear after a maskable
\* interrupt was handled between the section's read and its disable()
C15_Witness ==
    /\ TopIs("bsp", "wi", "work")
    /\ Clean(Top("bsp")) /\ Top("bsp").hit
    /\ Top("bsp").entry /\ Top("bsp").saved
    /\ ~INTERRUPT_FLAG["bsp"]

\* --------------------------------------------------------------- C16
EhReturns(c) == TopIs(c, "eh", "ret") /\ ~halted[c] /\ Popped(c)

\* from the return of enable_and_hlt on the bit is set, and an
\* are_enabled() that follows the return answers TRUE
C16_SetAtReturn ==
    \A c \in Cores :
        /\ EhReturns(c) => INTERRUPT_FLAG'[c]
        /\ (AreEnabled(c) /\ rv[c].op = "enable_and_hlt") => rv'[c].b

\* the thread runs with the bit set after the return, so the sequence
\* disable / check / enable_and_hlt ends with the bit set
C16_SetAfterReturn ==
    \A c \in Cores :
        /\ (rv[c].op = "enable_and_hlt" /\ ~InHandler(c)) => INTERRUPT_FLAG[c]
        /\ TopIs(c, "safe", "ret") => (InHandler(c) \/ INTERRUPT_FLAG[c])

\* C16: enable_and_hlt leaves interrupts admitted: when it returns after an
\* interrupt whose handler restored the interrupted flag has woken the
\* core, the bit is set and are_enabled() answers TRUE, whatever the bit
\* was at the call; the sequence disable / check / enable_and_hlt therefore
\* ends with the bit set and has to disable again before its next check.
C16_LeavesInterruptsAdmitted == [][C16_SetAtReturn]_vars /\ []C16_SetAfterReturn

\* enable_and_hlt, called by the idle sequence with the bit clear, has
\* returned after an interrupt woke the core, and the bit is set
C16_Witness ==
    /\ TopIs("bsp", "safe", "ret")
    /\ rv["bsp"].op = "enable_and_hlt"
    /\ INTERRUPT_FLAG["bsp"]
====
